---- MODULE Spec2Model ----
(***************************************************************************)
(* State-machine model of the socket.io server core (server.go): the       *)
(* Session Registry (Server.sids), the Room Index (Server.channels,        *)
(* Server.rooms), their two RWMutexes, the fresh-connection handshake, the *)
(* transport upgrade, teardown (onDisconnection) and the broadcasts.       *)
(***************************************************************************)
EXTENDS Integers, Sequences, FiniteSets, TLC

\* ------------------------------------------------------------------ bounds
MaxChan == 2        \* Channel objects ever constructed
MaxMsgs == 1        \* message frames ever emitted to one channel

Chan == 1..MaxChan
NoChan == 0                       \* nil *Channel
Sid == {"X", "Y"}                 \* session ids
Room == {"lobby", "chat"}         \* room names
NoThread == <<>>
LoopThread(c) == <<"loop", c>>    \* the goroutine of c's loops that runs close()
HttpThread(c) == <<"http", c>>    \* the request goroutine that constructs c
Caller == <<"caller">>            \* an application goroutine calling the public API
LockNames == {"channelsMu", "sidsMu"}
ErrorConnectionNotFound == "connection not found"
Nil == "nil"

VARIABLES
  pc,         \* pc[c]: position of the request goroutine that constructs channel c
  id,         \* id[c]: c.connHeader.Sid, what c.Id() returns
  old,        \* old[c]: cPolling of the upgrade that constructed c (NoChan: fresh)
  alive,      \* alive[c]: the liveness flag, c.IsAlive()
  stubbed,    \* stubbed[c]: c.stub() has run
  upgradedC,  \* upgradedC[c]: the one-shot upgrade signal of c has fired
  enq,        \* enq[c]: every frame placed on c.outC, in enqueue order
  sids,       \* Server.sids: session id -> channel
  channels,   \* Server.channels: room -> set of channels
  rooms,      \* Server.rooms: channel -> set of rooms
  mu,         \* mu[l]: writer and readers of the RWMutex l
  tdpc,       \* tdpc[c]: position of c's teardown (close, onDisconnection)
  bc,         \* the broadcast in progress or last finished, of Caller
  pending,    \* pending[c]: dispatched `go cn.Emit` goroutines not yet run
  ret,        \* what the last GetChannel call or the lookup of the last upgrade returned
  lastReg     \* lastReg[s]: the channel most recently registered under s

vars == <<pc, id, old, alive, stubbed, upgradedC, enq, sids, channels,
          rooms, mu, tdpc, bc, pending, ret, lastReg>>

\* ------------------------------------------------------------------ maps
MapPut(m, k, v) == [x \in (DOMAIN m) \cup {k} |-> IF x = k THEN v ELSE m[x]]
MapDelete(m, k) == [x \in (DOMAIN m) \ {k} |-> m[x]]
EmptyMap == [x \in {} |-> x]

\* ------------------------------------------------------------------ locks
UnlockedMu == [w |-> NoThread, r |-> {}]
HoldsW(l, t) == mu[l].w = t
HoldsR(l, t) == t \in mu[l].r
Holds(l, t) == HoldsW(l, t) \/ HoldsR(l, t)
\* sync.RWMutex: Lock needs no writer and no reader, RLock needs no writer;
\* a thread that already holds the mutex blocks itself.
CanLock(l, t) == mu[l].w = NoThread /\ mu[l].r = {}
CanRLock(l, t) == mu[l].w = NoThread /\ t \notin mu[l].r
Lock(m, l, t) == [m EXCEPT ![l].w = t]
Unlock(m, l) == [m EXCEPT ![l].w = NoThread]
RLock(m, l, t) == [m EXCEPT ![l].r = @ \cup {t}]
RUnlock(m, l, t) == [m EXCEPT ![l].r = @ \ {t}]

\* ------------------------------------------------------------------ frames
OpenFrame(hdrSid) == [type |-> "open", args |-> hdrSid]
EmptyFrame == [type |-> "empty", args |-> ""]
MsgFrame == [type |-> "msg", args |-> ""]

\* ------------------------------------------------------------------ reads
\* GetChannel without the check of lines 64-66
GetChannelNoCheck(sid) ==
  [c |-> IF sid \in DOMAIN sids THEN sids[sid] ELSE NoChan, err |-> Nil]

\* GetChannel, lines 59-69, under sidsMu.RLock
GetChannel(sid) ==
  IF sid \notin DOMAIN sids
  THEN [c |-> NoChan, err |-> ErrorConnectionNotFound]
  ELSE [c |-> sids[sid], err |-> Nil]

Amount(room) == IF room \in DOMAIN channels THEN Cardinality(channels[room]) ELSE 0

\* The slices a range over the channels of S can fill: map iteration order is not
\* specified, every order of the members is possible
Orders(S) ==
  {q \in [1..Cardinality(S) -> S] : \A i, j \in 1..Cardinality(S) : q[i] = q[j] => i = j}

\* List without line 93 (i++): every channel is written to the first element
ListNoIncrement(room) ==
  IF room \notin DOMAIN channels
  THEN {<<>>}
  ELSE {[i \in 1..Cardinality(channels[room]) |-> IF i = 1 THEN c ELSE NoChan] :
          c \in channels[room]}

\* List, lines 80-97: the slices the call can return, an empty one for a missing
\* room, else a fresh slice filled from the room's channels
List(room) == IF room \notin DOMAIN channels THEN {<<>>} ELSE Orders(channels[room])

CountChannels == Cardinality(DOMAIN sids)

CountRooms == Cardinality(DOMAIN channels)

IsAlive(c) == alive[c]

LoopsStarted(c) == pc[c] # "none"
Registered(c) == pc[c] \in {"uwait", "open"}
NextChan == IF \E c \in Chan : pc[c] = "none"
            THEN CHOOSE c \in Chan : pc[c] = "none" /\ \A d \in Chan : pc[d] = "none" => c <= d
            ELSE NoChan

\* ------------------------------------------------------------------ Init
NoBroadcast == [op |-> "idle", room |-> "", todoC |-> {}, todoS |-> {},
                disp |-> [c \in Chan |-> 0]]
NoReturn == [op |-> "none", sid |-> "", c |-> NoChan, err |-> Nil]

Init ==
  /\ pc = [c \in Chan |-> "none"]
  /\ id = [c \in Chan |-> ""]
  /\ old = [c \in Chan |-> NoChan]
  /\ alive = [c \in Chan |-> FALSE]
  /\ stubbed = [c \in Chan |-> FALSE]
  /\ upgradedC = [c \in Chan |-> FALSE]
  /\ enq = [c \in Chan |-> <<>>]
  /\ sids = EmptyMap
  /\ channels = EmptyMap
  /\ rooms = EmptyMap
  /\ mu = [l \in LockNames |-> UnlockedMu]
  /\ tdpc = [c \in Chan |-> "idle"]
  /\ bc = NoBroadcast
  /\ pending = [c \in Chan |-> 0]
  /\ ret = NoReturn
  /\ lastReg = [s \in Sid |-> NoChan]

\* ------------------------------------------------------------------ registration
\* onConnection that registers only when the id has no entry yet
onConnectionKeepFirst(c) == IF id[c] \in DOMAIN sids THEN sids ELSE MapPut(sids, id[c], c)

\* onConnection: under sidsMu.Lock, sids[c.Id()] = c
onConnection(c) == MapPut(sids, id[c], c)

Register(c) ==
  /\ CanLock("sidsMu", HttpThread(c))
  /\ sids' = onConnection(c)
  /\ lastReg' = [lastReg EXCEPT ![id[c]] = c]

\* ------------------------------------------------------------------ handshake
\* setupEventLoop, lines 173-182: the session id is a digest of address, time and
\* two random numbers, distinct from every id handed out before.
NewSid == CHOOSE s \in Sid : \A d \in Chan : id[d] # s

\* sendOpenSequence with lines 167 and 168 in the other order
sendOpenSequenceSwapped(c, hdrSid) == enq[c] \o <<EmptyFrame, OpenFrame(hdrSid)>>

\* sendOpenSequence: the open frame with the header, then the empty frame
sendOpenSequence(c, hdrSid) == enq[c] \o <<OpenFrame(hdrSid), EmptyFrame>>

\* setupEventLoop, lines 173-199: construct the channel, send the open sequence,
\* start the loops. Nothing else can reach c before its loops run.
setupEventLoop(c) ==
  /\ c = NextChan
  /\ c # NoChan
  /\ \E s \in Sid : \A d \in Chan : id[d] # s
  /\ pc' = [pc EXCEPT ![c] = "loops"]
  /\ id' = [id EXCEPT ![c] = NewSid]
  /\ alive' = [alive EXCEPT ![c] = TRUE]
  /\ enq' = [enq EXCEPT ![c] = sendOpenSequence(c, NewSid)]
  /\ UNCHANGED <<old, stubbed, upgradedC, sids, channels, rooms, mu,
                 tdpc, bc, pending, ret, lastReg>>

\* setupEventLoop, line 201: s.callLoopEvent(c, OnConnection)
CallOnConnection(c) ==
  /\ pc[c] = "loops"
  /\ Register(c)
  /\ pc' = [pc EXCEPT ![c] = "open"]
  /\ UNCHANGED <<id, old, alive, stubbed, upgradedC, enq, channels, rooms,
                 mu, tdpc, bc, pending, ret>>

\* ------------------------------------------------------------------ upgrade
\* setupUpgradeEventLoop without the return of line 211
setupUpgradeEventLoopNoReturn(sid) ==
  LET r == GetChannel(sid)
      c == NextChan
  IN /\ CanRLock("sidsMu", HttpThread(c))
     /\ ret' = [op |-> "upgrade", sid |-> sid, c |-> r.c, err |-> r.err]
     /\ c # NoChan
     /\ pc' = [pc EXCEPT ![c] = "uloops"]
     /\ id' = [id EXCEPT ![c] = sid]
     /\ old' = [old EXCEPT ![c] = r.c]
     /\ alive' = [alive EXCEPT ![c] = TRUE]
     /\ UNCHANGED <<stubbed, upgradedC, enq, sids, channels, rooms, mu,
                    tdpc, bc, pending, lastReg>>

\* setupUpgradeEventLoop, lines 208-228: look the old channel up (the outcome is
\* kept in ret), return when it is missing, else construct the new channel with the
\* same session id and start its loops.
setupUpgradeEventLoop(sid) ==
  LET r == GetChannel(sid)
      c == NextChan
  IN /\ CanRLock("sidsMu", HttpThread(c))
     /\ ret' = [op |-> "upgrade", sid |-> sid, c |-> r.c, err |-> r.err]
     /\ IF r.err # Nil
        THEN UNCHANGED <<pc, id, old, alive>>
        ELSE /\ c # NoChan
             /\ pc' = [pc EXCEPT ![c] = "uloops"]
             /\ id' = [id EXCEPT ![c] = sid]
             /\ old' = [old EXCEPT ![c] = r.c]
             /\ alive' = [alive EXCEPT ![c] = TRUE]
     /\ UNCHANGED <<stubbed, upgradedC, enq, sids, channels, rooms, mu,
                    tdpc, bc, pending, lastReg>>

\* line 231 with the rooms of the old channel handed over to the new channel
UpgradeOnConnectionMovesRooms(c) ==
  /\ pc[c] = "uloops"
  /\ Register(c)
  /\ pc' = [pc EXCEPT ![c] = "uwait"]
  /\ channels' = [r \in DOMAIN channels |->
                    IF old[c] \in channels[r] THEN (channels[r] \ {old[c]}) \cup {c}
                                              ELSE channels[r]]
  /\ rooms' = IF old[c] \in DOMAIN rooms
              THEN MapPut(MapDelete(rooms, old[c]), c, rooms[old[c]])
              ELSE rooms
  /\ UNCHANGED <<id, old, alive, stubbed, upgradedC, enq, mu, tdpc, bc, pending, ret>>

\* line 231: onConnection(c)
UpgradeOnConnection(c) ==
  /\ pc[c] = "uloops"
  /\ Register(c)
  /\ pc' = [pc EXCEPT ![c] = "uwait"]
  /\ UNCHANGED <<id, old, alive, stubbed, upgradedC, enq, channels, rooms,
                 mu, tdpc, bc, pending, ret>>

\* The inbound loop of the new channel observes the client's upgrade probe and
\* fires the one-shot upgrade signal.
ProbeObserved(c) ==
  /\ LoopsStarted(c)
  /\ old[c] # NoChan
  /\ tdpc[c] = "idle"
  /\ ~upgradedC[c]
  /\ upgradedC' = [upgradedC EXCEPT ![c] = TRUE]
  /\ UNCHANGED <<pc, id, old, alive, stubbed, enq, sids, channels, rooms,
                 mu, tdpc, bc, pending, ret, lastReg>>

\* setupUpgradeEventLoop without line 234: the old channel is stubbed at once
UpgradeSignalledNoWait(c) == pc[c] = "uwait"

\* setupUpgradeEventLoop waiting for the signal of the old channel
UpgradeSignalledOfOld(c) == upgradedC[old[c]]

\* line 234: <-c.upgradedC, the wait of the orchestration step
UpgradeSignalled(c) == upgradedC[c]

\* Channel.stub: the channel is deactivated, not torn down
stub(c) ==
  /\ stubbed' = [stubbed EXCEPT ![c] = TRUE]
  /\ alive' = [alive EXCEPT ![c] = FALSE]

\* lines 234-235: <-c.upgradedC; cPolling.stub()
UpgradeStub(c) ==
  /\ pc[c] = "uwait"
  /\ UpgradeSignalled(c)
  /\ stub(old[c])
  /\ pc' = [pc EXCEPT ![c] = "open"]
  /\ UNCHANGED <<id, old, upgradedC, enq, sids, channels, rooms, mu, tdpc,
                 bc, pending, ret, lastReg>>

\* ------------------------------------------------------------------ rooms
\* Channel.Join: under channelsMu.Lock
Join(c, room) ==
  /\ Registered(c)
  /\ CanLock("channelsMu", Caller)
  /\ channels' = MapPut(channels, room,
                        (IF room \in DOMAIN channels THEN channels[room] ELSE {}) \cup {c})
  /\ rooms' = MapPut(rooms, c, (IF c \in DOMAIN rooms THEN rooms[c] ELSE {}) \cup {room})
  /\ channels' # channels
  /\ UNCHANGED <<pc, id, old, alive, stubbed, upgradedC, enq, sids, mu, tdpc,
                 bc, pending, ret, lastReg>>

\* Channel.Leave: under channelsMu.Lock; a room left empty is pruned
Leave(c, room) ==
  /\ Registered(c)
  /\ CanLock("channelsMu", Caller)
  /\ room \in DOMAIN channels
  /\ c \in channels[room]
  /\ channels' = IF channels[room] \ {c} = {}
                 THEN MapDelete(channels, room)
                 ELSE MapPut(channels, room, channels[room] \ {c})
  /\ rooms' = IF c \in DOMAIN rooms THEN MapPut(rooms, c, rooms[c] \ {room}) ELSE rooms
  /\ UNCHANGED <<pc, id, old, alive, stubbed, upgradedC, enq, sids, mu, tdpc,
                 bc, pending, ret, lastReg>>

\* ------------------------------------------------------------------ teardown
\* onDisconnection taking the registry mutex first
onDisconnectionLocksSwapped == <<"sidsMu", "channelsMu">>

\* The order in which onDisconnection takes the two mutexes (lines 137, 141)
onDisconnectionLocks == <<"channelsMu", "sidsMu">>

\* onDisconnection without line 154-156: an emptied room keeps its key
onDisconnectionChannelsNoPrune(c) ==
  IF c \notin DOMAIN rooms
  THEN channels
  ELSE [r \in DOMAIN channels |-> IF r \in rooms[c] THEN channels[r] \ {c} ELSE channels[r]]

\* onDisconnection without the test of line 154: every room of c loses its key
onDisconnectionChannelsDropRoom(c) ==
  IF c \notin DOMAIN rooms
  THEN channels
  ELSE [r \in DOMAIN channels \ rooms[c] |-> channels[r]]

\* lines 146-158: the rooms of c lose c, a room left empty loses its key
onDisconnectionChannels(c) ==
  IF c \notin DOMAIN rooms
  THEN channels
  ELSE LET mine == rooms[c] \cap DOMAIN channels
           kept == {r \in DOMAIN channels : r \notin mine \/ channels[r] \ {c} # {}}
       IN [r \in kept |-> IF r \in mine THEN channels[r] \ {c} ELSE channels[r]]

\* onDisconnection without line 159: the entry of c in rooms stays
onDisconnectionRoomsKept(c) == rooms

\* lines 146-149, 159: delete(c.server.rooms, c)
onDisconnectionRooms(c) == IF c \notin DOMAIN rooms THEN rooms ELSE MapDelete(rooms, c)

\* onDisconnection that returns without running the deferred delete
onDisconnectionSidsSkipped(c) == sids

\* line 143, deferred: delete(c.server.sids, c.Id())
onDisconnectionSids(c) == MapDelete(sids, id[c])

\* A loop of c detects that the transport is gone: Channel.close clears the
\* liveness flag and fires the disconnection event, once.
Close(c) ==
  /\ LoopsStarted(c)
  /\ tdpc[c] = "idle"
  /\ alive' = [alive EXCEPT ![c] = FALSE]
  /\ tdpc' = [tdpc EXCEPT ![c] = "closing"]
  /\ UNCHANGED <<pc, id, old, stubbed, upgradedC, enq, sids, channels, rooms,
                 mu, bc, pending, ret, lastReg>>

\* onDisconnection, lines 137-159: first mutex, then the Room Index clean-up
OnDisconnectionRoomIndex(c) ==
  /\ tdpc[c] = "closing"
  /\ CanLock(onDisconnectionLocks[1], LoopThread(c))
  /\ mu' = Lock(mu, onDisconnectionLocks[1], LoopThread(c))
  /\ channels' = onDisconnectionChannels(c)
  /\ rooms' = onDisconnectionRooms(c)
  /\ tdpc' = [tdpc EXCEPT ![c] = "deferred"]
  /\ UNCHANGED <<pc, id, old, alive, stubbed, upgradedC, enq, sids, bc,
                 pending, ret, lastReg>>

\* onDisconnection, line 141: the deferred function takes the second mutex
OnDisconnectionLockSids(c) ==
  /\ tdpc[c] = "deferred"
  /\ CanLock(onDisconnectionLocks[2], LoopThread(c))
  /\ mu' = Lock(mu, onDisconnectionLocks[2], LoopThread(c))
  /\ tdpc' = [tdpc EXCEPT ![c] = "locked"]
  /\ UNCHANGED <<pc, id, old, alive, stubbed, upgradedC, enq, sids, channels,
                 rooms, bc, pending, ret, lastReg>>

\* onDisconnection, lines 142-143 and 138: delete the entry, release both mutexes
OnDisconnectionSids(c) ==
  /\ tdpc[c] = "locked"
  /\ sids' = onDisconnectionSids(c)
  /\ mu' = Unlock(Unlock(mu, onDisconnectionLocks[2]), onDisconnectionLocks[1])
  /\ tdpc' = [tdpc EXCEPT ![c] = "done"]
  /\ UNCHANGED <<pc, id, old, alive, stubbed, upgradedC, enq, channels, rooms,
                 bc, pending, ret, lastReg>>

\* ------------------------------------------------------------------ lookup
\* An application goroutine calls GetChannel(sid): under sidsMu.RLock
GetChannelCall(sid) ==
  /\ CanRLock("sidsMu", Caller)
  /\ ret' = [op |-> "GetChannel", sid |-> sid, c |-> GetChannel(sid).c,
             err |-> GetChannel(sid).err]
  /\ ret' # ret
  /\ UNCHANGED <<pc, id, old, alive, stubbed, upgradedC, enq, sids, channels,
                 rooms, mu, tdpc, bc, pending, lastReg>>

\* An application goroutine calls List(room): under channelsMu.RLock
ListCall(room) ==
  /\ CanRLock("channelsMu", Caller)
  /\ \E q \in List(room) : ret' = [op |-> "List", room |-> room, list |-> q]
  /\ ret' # ret
  /\ UNCHANGED <<pc, id, old, alive, stubbed, upgradedC, enq, sids, channels,
                 rooms, mu, tdpc, bc, pending, lastReg>>

\* An application goroutine calls Amount(room): under channelsMu.RLock
AmountCall(room) ==
  /\ CanRLock("channelsMu", Caller)
  /\ ret' = [op |-> "Amount", room |-> room, n |-> Amount(room)]
  /\ ret' # ret
  /\ UNCHANGED <<pc, id, old, alive, stubbed, upgradedC, enq, sids, channels,
                 rooms, mu, tdpc, bc, pending, lastReg>>

\* ------------------------------------------------------------------ emit
\* Channel.Emit: a frame for the outbound queue of a channel that is alive
Emit(c) == IF IsAlive(c) THEN Append(enq[c], MsgFrame) ELSE enq[c]

\* Message frames ever queued on c plus those still to come from dispatched goroutines
Load(c) == Cardinality({i \in 1..Len(enq[c]) : enq[c][i] = MsgFrame}) + pending[c]

\* cn.Emit called without go: the broadcast goes on when the Emit has returned
GoEmitAwaited(c) == pending[c] = 0

\* lines 111, 123: the go statement returns at once, the broadcast waits for no Emit
GoEmitReturned(c) == TRUE

\* `go cn.Emit(method, payload)`: the goroutine is dispatched and runs later
GoEmit(c) == [pending EXCEPT ![c] = @ + 1]

\* An application goroutine that got c from the registry or from a room calls c.Emit
EmitCall(c) ==
  /\ c \in {sids[s] : s \in DOMAIN sids} \cup UNION {channels[r] : r \in DOMAIN channels}
  /\ IsAlive(c)
  /\ Load(c) < MaxMsgs
  /\ enq' = [enq EXCEPT ![c] = Emit(c)]
  /\ UNCHANGED <<pc, id, old, alive, stubbed, upgradedC, sids, channels,
                 rooms, mu, tdpc, bc, pending, ret, lastReg>>

\* A dispatched Emit goroutine runs
EmitRun(c) ==
  /\ pending[c] > 0
  /\ pending' = [pending EXCEPT ![c] = @ - 1]
  /\ enq' = [enq EXCEPT ![c] = Emit(c)]
  /\ UNCHANGED <<pc, id, old, alive, stubbed, upgradedC, sids, channels,
                 rooms, mu, tdpc, bc, ret, lastReg>>

\* ------------------------------------------------------------------ broadcast
\* BroadcastTo that ranges over the channels of every room
BroadcastToTargetsAnyRoom(room) == UNION {channels[r] : r \in DOMAIN channels}

\* BroadcastTo that falls back to every registered channel when the room is missing
BroadcastToTargetsFallback(room) ==
  IF room \notin DOMAIN channels THEN {sids[s] : s \in DOMAIN sids} ELSE channels[room]

\* BroadcastTo, lines 104-109: the channels the loop ranges over
BroadcastToTargets(room) == IF room \notin DOMAIN channels THEN {} ELSE channels[room]

\* BroadcastTo, lines 101-107: RLock, look the room up
BroadcastToBegin(room) ==
  /\ bc.op = "idle"
  /\ CanRLock("channelsMu", Caller)
  /\ mu' = RLock(mu, "channelsMu", Caller)
  /\ bc' = [NoBroadcast EXCEPT !.op = "to", !.room = room, !.todoC = BroadcastToTargets(room)]
  /\ UNCHANGED <<pc, id, old, alive, stubbed, upgradedC, enq, sids, channels,
                 rooms, tdpc, pending, ret, lastReg>>

\* BroadcastTo, lines 109-113, one turn of the loop over the room's channels
BroadcastToVisit(cn) ==
  /\ bc.op = "to"
  /\ cn \in bc.todoC
  /\ \A c \in Chan : GoEmitReturned(c)
  /\ IF IsAlive(cn)
     THEN /\ Load(cn) < MaxMsgs
          /\ pending' = GoEmit(cn)
          /\ bc' = [bc EXCEPT !.todoC = @ \ {cn}, !.disp[cn] = @ + 1]
     ELSE /\ bc' = [bc EXCEPT !.todoC = @ \ {cn}]
          /\ UNCHANGED pending
  /\ UNCHANGED <<pc, id, old, alive, stubbed, upgradedC, enq, sids, channels,
                 rooms, mu, tdpc, ret, lastReg>>

\* BroadcastTo, line 102 deferred: RUnlock on return
BroadcastToEnd ==
  /\ bc.op = "to"
  /\ bc.todoC = {}
  /\ \A c \in Chan : GoEmitReturned(c)
  /\ mu' = RUnlock(mu, "channelsMu", Caller)
  /\ bc' = NoBroadcast
  /\ UNCHANGED <<pc, id, old, alive, stubbed, upgradedC, enq, sids, channels,
                 rooms, tdpc, pending, ret, lastReg>>

\* BroadcastToAll that reaches the channel an entry's channel replaced
BroadcastToAllEntryReplaced(s) == IF old[sids[s]] # NoChan THEN old[sids[s]] ELSE sids[s]

\* BroadcastToAll, line 121: cn, the value of the registry entry the loop is at
BroadcastToAllEntry(s) == sids[s]

\* BroadcastToAll, lines 118-121: RLock, range over the registry
BroadcastToAllBegin ==
  /\ bc.op = "idle"
  /\ CanRLock("sidsMu", Caller)
  /\ mu' = RLock(mu, "sidsMu", Caller)
  /\ bc' = [NoBroadcast EXCEPT !.op = "toAll", !.todoS = DOMAIN sids]
  /\ UNCHANGED <<pc, id, old, alive, stubbed, upgradedC, enq, sids, channels,
                 rooms, tdpc, pending, ret, lastReg>>

\* BroadcastToAll, lines 121-125, one turn of the loop over the registry entries
BroadcastToAllVisit(s) ==
  /\ bc.op = "toAll"
  /\ s \in bc.todoS
  /\ \A c \in Chan : GoEmitReturned(c)
  /\ LET cn == BroadcastToAllEntry(s)
     IN IF IsAlive(cn)
        THEN /\ Load(cn) < MaxMsgs
             /\ pending' = GoEmit(cn)
             /\ bc' = [bc EXCEPT !.todoS = @ \ {s}, !.disp[cn] = @ + 1]
        ELSE /\ bc' = [bc EXCEPT !.todoS = @ \ {s}]
             /\ UNCHANGED pending
  /\ UNCHANGED <<pc, id, old, alive, stubbed, upgradedC, enq, sids, channels,
                 rooms, mu, tdpc, ret, lastReg>>

\* BroadcastToAll, line 119 deferred: RUnlock on return
BroadcastToAllEnd ==
  /\ bc.op = "toAll"
  /\ bc.todoS = {}
  /\ \A c \in Chan : GoEmitReturned(c)
  /\ mu' = RUnlock(mu, "sidsMu", Caller)
  /\ bc' = NoBroadcast
  /\ UNCHANGED <<pc, id, old, alive, stubbed, upgradedC, enq, sids, channels,
                 rooms, tdpc, pending, ret, lastReg>>

\* ------------------------------------------------------------------ specifications
Handshake ==
  \/ \E c \in Chan : setupEventLoop(c)
  \/ \E c \in Chan : CallOnConnection(c)

Upgrade ==
  \/ \E s \in Sid : setupUpgradeEventLoop(s)
  \/ \E c \in Chan : UpgradeOnConnection(c)
  \/ \E c \in Chan : ProbeObserved(c)
  \/ \E c \in Chan : UpgradeStub(c)

RoomOps ==
  \/ \E c \in Chan, r \in Room : Join(c, r)
  \/ \E c \in Chan, r \in Room : Leave(c, r)

Teardown ==
  \/ \E c \in Chan : Close(c)
  \/ \E c \in Chan : OnDisconnectionRoomIndex(c)
  \/ \E c \in Chan : OnDisconnectionLockSids(c)
  \/ \E c \in Chan : OnDisconnectionSids(c)

Lookup == \E s \in Sid : GetChannelCall(s)

Emits ==
  \/ \E c \in Chan : EmitCall(c)
  \/ \E c \in Chan : EmitRun(c)

Broadcast ==
  \/ \E r \in Room : BroadcastToBegin(r)
  \/ \E c \in Chan : BroadcastToVisit(c)
  \/ BroadcastToEnd
  \/ BroadcastToAllBegin
  \/ \E s \in Sid : BroadcastToAllVisit(s)
  \/ BroadcastToAllEnd

Reads ==
  \/ \E r \in Room : ListCall(r)
  \/ \E r \in Room : AmountCall(r)

\* The server with its connections, rooms and teardown
Next == Handshake \/ Upgrade \/ RoomOps \/ Teardown

Spec == Init /\ [][Next]_vars

\* A goroutine that can run is run: the request goroutines reach their registration
\* and, once the signal has fired, the stub; a teardown that has started takes its
\* mutexes and completes. Nothing makes a client connect, upgrade, send the probe
\* or drop, nor the application join or leave.
Fairness ==
  \A c \in Chan :
    /\ WF_vars(CallOnConnection(c))
    /\ WF_vars(UpgradeOnConnection(c))
    /\ WF_vars(UpgradeStub(c))
    /\ WF_vars(OnDisconnectionRoomIndex(c))
    /\ WF_vars(OnDisconnectionLockSids(c))
    /\ WF_vars(OnDisconnectionSids(c))

SpecFair == Spec /\ Fairness

\* ... with application goroutines looking sessions up
NextLookup == Next \/ Lookup

SpecLookup == Init /\ [][NextLookup]_vars

\* ... with application goroutines reading the Room Index
NextReads == Next \/ Reads

SpecReads == Init /\ [][NextReads]_vars

\* ... with application goroutines broadcasting, and the outbound queues
NextBroadcast == Next \/ Broadcast \/ Emits

SpecBroadcast == Init /\ [][NextBroadcast]_vars

\* ================================================================== claims
Members(r) == IF r \in DOMAIN channels THEN channels[r] ELSE {}
RoomsOf(c) == IF c \in DOMAIN rooms THEN rooms[c] ELSE {}

\* C1: when channel a was registered under an id, a newer channel was then
\* registered under the same id (the upgrade case) and a is torn down, the teardown
\* of a leaves the registry as it is: GetChannel of the id still returns the newer
\* channel and CountChannels is unchanged.
C1_TeardownKeepsNewerEntry ==
  [][\A a \in Chan :
       (/\ tdpc[a] = "locked" /\ tdpc'[a] = "done"
        /\ Registered(a)
        /\ GetChannel(id[a]).err = Nil /\ GetChannel(id[a]).c # a)
         => /\ GetChannel(id[a])' = GetChannel(id[a])
            /\ CountChannels' = CountChannels]_vars

\* C2: the two maps of the Room Index agree in every state: c is in channels[r]
\* exactly when r is in rooms[c], for every room r and channel c.
C2_RoomIndexConsistent ==
  \A c \in Chan, r \in Room : (c \in Members(r)) <=> (r \in RoomsOf(c))

\* C2 witness: one channel is torn down and in no map, another is the only member
\* of the only room.
C2_Witness ==
  \E c, d \in Chan :
    /\ tdpc[c] = "done"
    /\ c \notin DOMAIN rooms
    /\ \E r \in Room : RoomsOf(d) = {r} /\ DOMAIN channels = {r} /\ Members(r) = {d}

\* C5: no room key maps to an empty member set, and CountRooms is the number of
\* rooms with at least one member.
C5_NoEmptyRoom ==
  /\ \A r \in DOMAIN channels : channels[r] # {}
  /\ CountRooms = Cardinality({r \in Room : \E c \in Chan : c \in Members(r)})

\* C5 witness: a channel has left its last room and another is torn down, and no
\* room key is left.
C5_Witness ==
  /\ CountRooms = 0
  /\ \E c \in DOMAIN rooms : rooms[c] = {}
  /\ \E d \in Chan : tdpc[d] \in {"deferred", "locked", "done"}

\* C3: an old channel is stubbed only after the upgrade signal of a new channel
\* constructed to replace it has fired and that upgrade has gone past its wait; an
\* upgrade that is past its wait has seen its signal; and until then the old channel
\* loses its liveness flag only through the failure of its own transport.
C3_StubAfterSignal ==
  /\ \A o \in Chan : stubbed[o] => \E c \in Chan : old[c] = o /\ upgradedC[c] /\ pc[c] = "open"
  /\ \A c \in Chan : (old[c] # NoChan /\ pc[c] = "open") => upgradedC[c]
  /\ \A o \in Chan : (pc[o] # "none" /\ ~alive[o]) => (stubbed[o] \/ tdpc[o] # "idle")

\* C3 witness: the signal of the new channel has fired and the old channel is stubbed.
C3_Witness ==
  \E c \in Chan : old[c] # NoChan /\ pc[c] = "open" /\ upgradedC[c] /\ stubbed[old[c]]

\* C6: a GetChannel call returns ConnectionNotFound exactly when the registry has no
\* entry for the id, otherwise the channel most recently registered under the id,
\* and it changes neither the registry nor the Room Index.
C6_GetChannel ==
  [][(ret' # ret /\ ret'.op = "GetChannel")
       => /\ (ret'.err = ErrorConnectionNotFound) <=> (ret'.sid \notin DOMAIN sids)
          /\ ret'.err \in {ErrorConnectionNotFound, Nil}
          /\ ret'.err = Nil => ret'.c = lastReg[ret'.sid]
          /\ ret'.err # Nil => ret'.c = NoChan
          /\ UNCHANGED <<sids, channels, rooms>>]_vars

\* C6 witness: a call returned the newer of two channels registered under one id.
C6_Witness ==
  /\ ret.op = "GetChannel" /\ ret.err = Nil
  /\ old[ret.c] # NoChan
  /\ Registered(old[ret.c])
  /\ DOMAIN channels # {}

\* The step in which the request goroutine of c registers c
RegStep(c) == pc[c] \in {"loops", "uloops"} /\ pc'[c] \in {"open", "uwait"}

\* C7 as stated: the registration of an upgrade's new channel, constructed with the
\* id of the old one, leaves CountChannels unchanged and makes GetChannel return the
\* new channel; a fresh handshake with an unused id raises CountChannels by one.
C7_UpgradeKeepsCount ==
  [][\A c \in Chan : RegStep(c)
       => /\ GetChannel(id[c])' = [c |-> c, err |-> Nil]
          /\ old[c] # NoChan => (id[c] = id[old[c]] /\ CountChannels' = CountChannels)
          /\ (old[c] = NoChan /\ id[c] \notin DOMAIN sids)
               => CountChannels' = CountChannels + 1]_vars

\* C7 amended: registering c under an id that has an entry overwrites the entry and
\* leaves CountChannels unchanged; under an id without entry (a fresh handshake, or
\* an upgrade whose old channel was torn down since the lookup) it raises
\* CountChannels by one; either way GetChannel of the id then returns c and no other
\* entry changes. An upgrade's new channel has the id of the old one, a fresh
\* channel an id without entry.
C7_RegisterOverwrites ==
  [][\A c \in Chan : RegStep(c)
       => /\ GetChannel(id[c])' = [c |-> c, err |-> Nil]
          /\ id[c] \in DOMAIN sids
               => (CountChannels' = CountChannels /\ DOMAIN sids' = DOMAIN sids)
          /\ id[c] \notin DOMAIN sids => CountChannels' = CountChannels + 1
          /\ \A s \in DOMAIN sids : s # id[c] => (s \in DOMAIN sids' /\ sids'[s] = sids[s])
          /\ old[c] # NoChan => id[c] = id[old[c]]
          /\ old[c] = NoChan => id[c] \notin DOMAIN sids]_vars

\* C7 witness: two channels share an id, the newer one holds the single entry.
C7_Witness ==
  \E c \in Chan :
    /\ old[c] # NoChan /\ Registered(c) /\ Registered(old[c])
    /\ tdpc[old[c]] = "idle"
    /\ GetChannel(id[c]).c = c
    /\ CountChannels = 1

\* C8: an upgrade request for an id without registry entry changes nothing: no
\* channel is constructed, registered or stubbed, no loops start, and the registry,
\* the Room Index and the mutexes are as before.
C8_UpgradeUnknownId ==
  [][(ret' # ret /\ ret'.op = "upgrade" /\ ret'.sid \notin DOMAIN sids)
       => UNCHANGED <<pc, id, old, alive, stubbed, upgradedC, enq, sids, channels,
                      rooms, mu, tdpc, bc, pending, lastReg>>]_vars

\* C8 witness: an upgrade request was abandoned while the registry and the Room
\* Index hold something.
C8_Witness ==
  /\ ret.op = "upgrade" /\ ret.err = ErrorConnectionNotFound
  /\ DOMAIN sids # {}
  /\ DOMAIN channels # {}
  /\ \E c \in Chan : pc[c] = "none"

\* C4: BroadcastTo dispatches a delivery to a channel only if the channel is a
\* member of the room (read under the lock the broadcast holds) and its liveness
\* flag is true when it is read, at most once; when the loop is over, every member
\* that is alive has exactly one delivery and no channel outside the room has any.
C4_BroadcastScoping ==
  [][/\ \A c \in Chan : (bc.op = "to" /\ pending'[c] > pending[c])
          => /\ c \in Members(bc.room)
             /\ alive[c]
             /\ bc.disp[c] = 0 /\ bc'.disp[c] = 1
             /\ pending'[c] = pending[c] + 1
     /\ bc'.op = "to"
          => /\ \A c \in Chan : bc'.disp[c] > 0 => c \in Members(bc.room)'
             /\ \A c \in Chan : c \notin Members(bc.room)' => bc'.disp[c] = 0
     /\ (bc'.op = "to" /\ bc'.todoC = {})
          => \A c \in Members(bc.room)' : alive'[c] => bc'.disp[c] = 1]_vars

\* C4 witness: a broadcast to a room is over, a member has its delivery and a live
\* channel that is in another room only has none.
C4_Witness ==
  /\ bc.op = "to" /\ bc.todoC = {}
  /\ \E c \in Members(bc.room) : bc.disp[c] = 1
  /\ \E d \in Chan : d \notin Members(bc.room) /\ RoomsOf(d) # {} /\ alive[d] /\ bc.disp[d] = 0

Discoverable(c) ==
  \/ \E s \in DOMAIN sids : sids[s] = c
  \/ \E r \in DOMAIN channels : c \in channels[r]

\* C9: the outbound queue of a channel of a fresh handshake starts with the open
\* frame carrying the channel's session id, then the empty frame, and only message
\* frames follow; before the channel is registered it is not discoverable and
\* nothing else is queued or dispatched for it.
C9_OpenSequenceFirst ==
  /\ \A c \in Chan : (old[c] = NoChan /\ (pc[c] # "none" \/ Discoverable(c)))
       => /\ Len(enq[c]) >= 2
          /\ enq[c][1] = OpenFrame(id[c])
          /\ enq[c][2] = EmptyFrame
          /\ \A i \in 3..Len(enq[c]) : enq[c][i] = MsgFrame
  /\ \A c \in Chan : ~Registered(c)
       => /\ ~Discoverable(c)
          /\ pending[c] = 0
          /\ \A i \in 1..Len(enq[c]) : enq[c][i] # MsgFrame

\* C9 witness: a registered channel of a fresh handshake has a message frame queued
\* behind its open sequence.
C9_Witness ==
  \E c \in Chan :
    /\ old[c] = NoChan /\ Registered(c)
    /\ Len(enq[c]) = 3 /\ enq[c][3] = MsgFrame

Threads == {LoopThread(c) : c \in Chan} \cup {HttpThread(c) : c \in Chan} \cup {Caller}

\* The mutex thread t is blocked on or about to take, "" when none
Wants(t) ==
  IF \E c \in Chan : t = LoopThread(c) /\ tdpc[c] = "closing" THEN onDisconnectionLocks[1]
  ELSE IF \E c \in Chan : t = LoopThread(c) /\ tdpc[c] = "deferred" THEN onDisconnectionLocks[2]
  ELSE IF \E c \in Chan : t = HttpThread(c) /\ pc[c] \in {"loops", "uloops"} THEN "sidsMu"
  ELSE ""

Blocked(t) == Wants(t) # "" /\ ~CanLock(Wants(t), t)

\* C10: a thread holds both mutexes only in teardown, which takes the Room Index
\* mutex first and the registry mutex while holding it; no thread that holds the
\* registry mutex takes or waits for the Room Index mutex; no two threads each hold
\* one mutex while blocked on the other, and no thread is blocked on a mutex it holds.
C10_LockOrder ==
  /\ \A t \in Threads :
       /\ (Holds("channelsMu", t) /\ Holds("sidsMu", t))
            => \E c \in Chan : t = LoopThread(c) /\ tdpc[c] = "locked"
       /\ Holds("sidsMu", t) => Wants(t) # "channelsMu"
       /\ \A l \in LockNames : ~(Holds(l, t) /\ Wants(t) = l)
  /\ \A c \in Chan :
       /\ tdpc[c] = "deferred"
            => (HoldsW("channelsMu", LoopThread(c)) /\ ~Holds("sidsMu", LoopThread(c)))
       /\ tdpc[c] \in {"idle", "closing", "done"}
            => (~Holds("channelsMu", LoopThread(c)) /\ ~Holds("sidsMu", LoopThread(c)))
  /\ ~(\E t, u \in Threads : \E l, m \in LockNames :
         /\ t # u /\ l # m
         /\ Holds(l, t) /\ Wants(t) = m /\ Blocked(t)
         /\ Holds(m, u) /\ Wants(u) = l /\ Blocked(u))

\* C10 witness: a teardown holds both mutexes while another teardown is blocked on
\* the Room Index mutex.
C10_Witness ==
  \E c, d \in Chan :
    /\ tdpc[c] = "locked"
    /\ HoldsW("channelsMu", LoopThread(c)) /\ HoldsW("sidsMu", LoopThread(c))
    /\ tdpc[d] = "closing" /\ Blocked(LoopThread(d))

RegistryValues == {sids[s] : s \in DOMAIN sids}

\* C11: BroadcastToAll dispatches a delivery to a channel only if the channel is the
\* value of a registry entry (read under the lock the broadcast holds) and its
\* liveness flag is true when it is read, at most once; when the loop is over,
\* every registry value that is alive has exactly one delivery, and a channel that
\* is no registry value (its entry overwritten or removed before the read) has none.
C11_BroadcastToAllScoping ==
  [][/\ \A c \in Chan : (bc.op = "toAll" /\ pending'[c] > pending[c])
          => /\ c \in RegistryValues
             /\ alive[c]
             /\ bc.disp[c] = 0 /\ bc'.disp[c] = 1
             /\ pending'[c] = pending[c] + 1
     /\ bc'.op = "toAll"
          => /\ RegistryValues' = RegistryValues
             /\ \A c \in Chan : c \notin RegistryValues' => bc'.disp[c] = 0
     /\ (bc'.op = "toAll" /\ bc'.todoS = {})
          => \A c \in RegistryValues' : alive'[c] => bc'.disp[c] = 1]_vars

\* C11 witness: a broadcast to all is over, the channel that holds the entry has its
\* delivery and the live channel it replaced has none.
C11_Witness ==
  /\ bc.op = "toAll" /\ bc.todoS = {}
  /\ \E c \in RegistryValues :
       /\ bc.disp[c] = 1
       /\ old[c] # NoChan /\ Registered(old[c]) /\ alive[old[c]] /\ bc.disp[old[c]] = 0

\* C12: a List call returns a slice holding exactly the members the room has at the
\* instant of the call, each once (an empty slice for a room without entry), and an
\* Amount call returns the number of those members (0 without entry); the call runs
\* while no writer holds the Room Index mutex, so every returned channel has the
\* room among its rooms; a join, leave or teardown changes no value already
\* returned; the calls change neither the Room Index nor the registry.
C12_ListSnapshot ==
  [][/\ (ret' # ret /\ ret'.op = "List")
          => LET q == ret'.list
                 n == Cardinality(Members(ret'.room))
             IN /\ DOMAIN q = 1..n
                /\ {q[i] : i \in 1..n} = Members(ret'.room)
                /\ \A i, j \in 1..n : q[i] = q[j] => i = j
                /\ \A i \in 1..n : ret'.room \in RoomsOf(q[i])
                /\ ret'.room \notin DOMAIN channels => q = <<>>
                /\ mu["channelsMu"].w = NoThread
                /\ UNCHANGED <<channels, rooms, sids>>
     /\ (ret' # ret /\ ret'.op = "Amount")
          => /\ ret'.n = Cardinality(Members(ret'.room))
             /\ ret'.room \notin DOMAIN channels => ret'.n = 0
             /\ mu["channelsMu"].w = NoThread
             /\ UNCHANGED <<channels, rooms, sids>>
     /\ (channels' # channels \/ rooms' # rooms) => ret' = ret]_vars

\* C12 witness: a List call returned two members of a room, and one of them has
\* since been torn down and is no member any more.
C12_Witness ==
  /\ ret.op = "List"
  /\ DOMAIN ret.list = 1..2
  /\ \E i \in 1..2 : tdpc[ret.list[i]] = "done" /\ ret.list[i] \notin Members(ret.room)
  /\ Amount(ret.room) = 1

\* The teardown of c has cleaned the Room Index / has deleted the registry entry
TornFromRooms(c) == tdpc[c] \in {"deferred", "locked", "done"}
TornDown(c) == tdpc[c] = "done"

\* C13: in a run of fresh connects, joins and disconnects (no channel comes from an
\* upgrade, no channel joins after its teardown), Amount(room) is the number of
\* connected channels that have room among their rooms and are not torn down, and
\* CountChannels is the number of connected channels that are not torn down; so
\* with two clients in "lobby" and the first disconnected both are 1.
C13_CountsFollowRun ==
  ((\A c \in Chan : old[c] = NoChan) /\ (\A c \in Chan : TornFromRooms(c) => c \notin DOMAIN rooms))
    => /\ \A r \in Room :
            Amount(r) = Cardinality({c \in Chan : /\ pc[c] = "open"
                                                  /\ r \in RoomsOf(c)
                                                  /\ ~TornFromRooms(c)})
       /\ CountChannels = Cardinality({c \in Chan : pc[c] = "open" /\ ~TornDown(c)})

\* C18: a channel whose teardown has completed is the value of no registry entry.
C18_NoTornDownInRegistry ==
  \A c \in Chan : TornDown(c) => c \notin RegistryValues

\* C14: a BroadcastTo on a room without entry in the Room Index does nothing: its
\* loop has no channel to visit and dispatches no delivery, and its steps (taking
\* the read lock, returning) leave the Room Index, CountRooms, the registry, the
\* dispatched deliveries and the outbound queues as they are; no entry for the room
\* appears while it runs.
C14_BroadcastToMissingRoom ==
  [][/\ (bc'.op = "to" /\ bc'.room \notin DOMAIN channels')
          => (bc'.todoC = {} /\ \A c \in Chan : bc'.disp[c] = 0)
     /\ (bc.op = "to" /\ bc.room \notin DOMAIN channels)
          => (bc.room \notin DOMAIN channels' /\ \A c \in Chan : pending'[c] <= pending[c])
     /\ (bc' # bc /\ (IF bc'.op = "to" THEN bc'.room ELSE bc.room) \notin DOMAIN channels
            /\ "to" \in {bc.op, bc'.op})
          => /\ UNCHANGED <<channels, rooms, sids, pending, enq, alive>>
             /\ CountRooms' = CountRooms]_vars

\* C14 witness: a broadcast to a room without entry is about to return while a live
\* registered channel is a member of another room.
C14_Witness ==
  /\ bc.op = "to" /\ bc.room \notin DOMAIN channels /\ bc.todoC = {}
  /\ \E c \in RegistryValues : alive[c] /\ RoomsOf(c) # {} /\ pending[c] = 0

\* The registry entry of c's id is c's own or missing: no other channel took the id
NotSuperseded(c) == id[c] \in DOMAIN sids => sids[id[c]] = c

\* C15: once the teardown of c has cleaned the Room Index, and when it completes, c
\* is a member of no room and rooms has no entry for c; when it completes and no
\* other channel holds c's id, the registry has no entry for the id, whether or not
\* c had joined a room.
C15_TeardownRemoves ==
  [][\A c \in Chan :
       /\ (tdpc'[c] # tdpc[c] /\ TornFromRooms(c)')
            => /\ \A r \in Room : c \notin Members(r)'
               /\ c \notin DOMAIN rooms'
       /\ (tdpc[c] = "locked" /\ tdpc'[c] = "done" /\ NotSuperseded(c))
            => id[c] \notin DOMAIN sids']_vars

\* C15 witness: the teardown of a registered channel that no other channel replaced
\* has completed, the entry is gone, and no room exists.
C15_Witness ==
  \E c \in Chan :
    /\ TornDown(c) /\ pc[c] = "open" /\ lastReg[id[c]] = c
    /\ id[c] \notin DOMAIN sids
    /\ DOMAIN channels = {} /\ DOMAIN rooms = {}
    /\ \E d \in RegistryValues : d # c

\* C16: the orchestration step of an upgrade goes past its wait only when the
\* signal of its new channel has fired, and stubs the old channel in that one step;
\* a channel is stubbed by no other step, and an upgrade past its wait stays past
\* it. Under fair scheduling, once the signal of the new channel has fired the old
\* channel is eventually stubbed; while an upgrade waits, with or without signal,
\* a teardown that has started completes and a handshake reaches its registration.
C16_UpgradeWait ==
  /\ [][\A c \in Chan :
          /\ (pc[c] = "uwait" /\ pc'[c] # "uwait")
               => (upgradedC[c] /\ pc'[c] = "open" /\ stubbed'[old[c]])
          /\ (pc[c] = "uwait" /\ ~upgradedC[c] /\ ~upgradedC'[c])
               => (pc'[c] = "uwait" /\ (stubbed'[old[c]] # stubbed[old[c]]
                                         => \E d \in Chan : d # c /\ old[d] = old[c]
                                                             /\ pc[d] = "uwait" /\ pc'[d] = "open"))
          /\ stubbed'[c] # stubbed[c]
               => \E d \in Chan : old[d] = c /\ pc[d] = "uwait" /\ pc'[d] = "open"
          /\ (old[c] # NoChan /\ pc[c] = "open") => pc'[c] = "open"]_vars
  /\ \A c \in Chan : (old[c] # NoChan /\ upgradedC[c])
                          ~> (old[c] # NoChan /\ pc[c] = "open" /\ stubbed[old[c]])
  /\ \A c \in Chan : (tdpc[c] = "closing") ~> TornDown(c)
  /\ \A c \in Chan : (pc[c] = "loops") ~> (pc[c] = "open")

\* C16 witness: an upgrade is past its wait, its signal has fired, the old channel
\* is stubbed and has since been torn down, the new channel is alive.
C16_Witness ==
  \E c \in Chan :
    /\ old[c] # NoChan /\ pc[c] = "open" /\ upgradedC[c]
    /\ stubbed[old[c]] /\ TornDown(old[c])
    /\ alive[c]

\* C17: a broadcast waits for no Emit it dispatched: whatever deliveries are still
\* to run, its loop can take its next turn and, the loop over, it can return; when
\* it has returned it holds no mutex; every dispatched delivery can run whatever
\* the others do; and with no broadcast running a teardown that has started can
\* take the Room Index mutex unless another teardown holds it, and a channel whose
\* loops run can be registered unless a teardown holds the registry mutex.
C17_DeliveriesIndependent ==
  /\ (bc.op = "to" /\ bc.todoC = {}) => ENABLED BroadcastToEnd
  /\ (bc.op = "toAll" /\ bc.todoS = {}) => ENABLED BroadcastToAllEnd
  /\ \A cn \in Chan : (bc.op = "to" /\ cn \in bc.todoC /\ (alive[cn] => Load(cn) < MaxMsgs))
       => ENABLED BroadcastToVisit(cn)
  /\ \A s \in Sid : (bc.op = "toAll" /\ s \in bc.todoS /\ (alive[sids[s]] => Load(sids[s]) < MaxMsgs))
       => ENABLED BroadcastToAllVisit(s)
  /\ bc.op = "idle" => \A l \in LockNames : ~Holds(l, Caller)
  /\ \A c \in Chan : pending[c] > 0 => ENABLED EmitRun(c)
  /\ \A c \in Chan :
       (bc.op = "idle" /\ tdpc[c] = "closing" /\ \A d \in Chan : tdpc[d] \notin {"deferred", "locked"})
         => ENABLED OnDisconnectionRoomIndex(c)
  /\ \A c \in Chan :
       (bc.op = "idle" /\ pc[c] \in {"loops", "uloops"} /\ \A d \in Chan : tdpc[d] # "locked")
         => ENABLED (CallOnConnection(c) \/ UpgradeOnConnection(c))

\* C17 witness: the broadcast has returned, the delivery dispatched to one channel
\* has not run and that channel has since been torn down, and another channel has
\* its message frame.
C17_Witness ==
  /\ bc.op = "idle"
  /\ \E c, d \in Chan :
       /\ c # d
       /\ pending[c] > 0 /\ TornDown(c)
       /\ pending[d] = 0 /\ Len(enq[d]) > 0 /\ enq[d][Len(enq[d])] = MsgFrame

\* C19: a step of the teardown of c leaves, for every other channel d, the rooms of
\* d and the membership of d in every room as they are, keeps the key of every room
\* that has a member other than c, and leaves every registry entry under an id
\* other than c's as it is.
C19_TeardownFrame ==
  [][\A c \in Chan : tdpc'[c] # tdpc[c]
       => /\ \A d \in Chan \ {c} :
               /\ (d \in DOMAIN rooms') <=> (d \in DOMAIN rooms)
               /\ RoomsOf(d)' = RoomsOf(d)
               /\ \A r \in Room : (d \in Members(r)') <=> (d \in Members(r))
          /\ \A r \in DOMAIN channels : channels[r] \ {c} # {} => r \in DOMAIN channels'
          /\ \A r \in Room : r \notin DOMAIN channels => r \notin DOMAIN channels'
          /\ \A s \in Sid \ {id[c]} :
               /\ (s \in DOMAIN sids') <=> (s \in DOMAIN sids)
               /\ s \in DOMAIN sids => sids'[s] = sids[s]]_vars

\* C19 witness: a registered channel has been torn down while another channel, with
\* another id, keeps its registry entry and its membership of both rooms.
C19_Witness ==
  \E c, d \in Chan :
    /\ c # d /\ id[c] # id[d]
    /\ pc[c] = "open" /\ TornDown(c) /\ id[c] \notin DOMAIN sids
    /\ GetChannel(id[d]).c = d
    /\ RoomsOf(d) = Room

\* A step of setupUpgradeEventLoop: the lookup with its outcome, the registration
\* of the new channel, the stub of the old one
UpgradeStep ==
  \/ ret' # ret /\ ret'.op = "upgrade"
  \/ \E c \in Chan : pc'[c] # pc[c] /\ old'[c] # NoChan

\* C20: no step of the upgrade path changes the Room Index: channels and rooms are
\* the same before and after it, so the old channel keeps every membership it has
\* and the new channel gets none; the new channel is in no room when it is
\* registered, and a channel that was replaced loses a membership only when it
\* leaves the room or by its own teardown.
C20_UpgradeKeepsRoomIndex ==
  [][/\ UpgradeStep => UNCHANGED <<channels, rooms>>
     /\ \A c \in Chan : (old'[c] # NoChan /\ pc'[c] \in {"uloops", "uwait"} /\ pc'[c] # pc[c])
          => (c \notin DOMAIN rooms' /\ \A r \in Room : c \notin Members(r)')
     /\ \A c \in Chan : (old[c] # NoChan /\ pc[c] = "uwait" /\ pc'[c] = "open")
          => (RoomsOf(c)' = RoomsOf(c) /\ RoomsOf(old[c])' = RoomsOf(old[c]))
     /\ \A c \in Chan : (old[c] # NoChan /\ ~(RoomsOf(old[c]) \subseteq RoomsOf(old[c])'))
          => \/ tdpc'[old[c]] # tdpc[old[c]]
             \/ (tdpc' = tdpc /\ pc' = pc /\ ret' = ret /\ sids' = sids)]_vars

\* C20 witness: the upgrade is over, the old channel is stubbed and still holds its
\* membership, the new channel is in no room.
C20_Witness ==
  \E c \in Chan :
    /\ old[c] # NoChan /\ pc[c] = "open" /\ stubbed[old[c]]
    /\ tdpc[old[c]] = "idle"
    /\ RoomsOf(old[c]) # {} /\ old[c] \in Members("lobby")
    /\ c \notin DOMAIN rooms
====
